---------------------------- MODULE Spec2Model ----------------------------
(***************************************************************************)
(* Model of bitstream-go: BitReader and BitWriter over slices of unsigned  *)
(* words (src/bitstream.go).                                               *)
(*                                                                         *)
(* A word, a source value and a read result are bit vectors, written as    *)
(* the set of the positions of their 1 bits, position 0 being the least    *)
(* significant bit.  So uint8(0b10000001) is {7, 0}, x | y is x \cup y,     *)
(* x & y is x \cap y, and the 64-bit values of the code need no 64-bit     *)
(* arithmetic.                                                             *)
(***************************************************************************)
EXTENDS Integers, Sequences, FiniteSets, TLC

VARIABLES
    size,     \* bit width of the element type T of the instance (unsafe.Sizeof * 8)
    w,        \* the BitWriter: data, bits, s, msb, lp, rp (panic: "" while alive)
    wpos,     \* the BitWriter's cursor
    r,        \* the BitReader: data, bits, s, msb
    rpos,     \* the BitReader's cursor
    ret,      \* what the last call returned, or the panic it raised
    arg,      \* the arguments of a constructor call
    stream,   \* history: the bits the calls on the writer selected, in call order
    blocks,   \* history: the values written by block writes of one bit count
    mu,       \* the writer's mutex: 0 when free, else the caller holding it
    pc,       \* each concurrent caller's position in its call
    call,     \* each concurrent caller's call and its arguments
    todo,     \* each concurrent caller's locals: loop index i and word index idx
    acc,      \* the shared-state accesses made so far without the mutex
    origin,   \* history: where the reader's cursor was last put, by construction or Seek
    readers   \* the BitReaders that share one buffer, each with its cursor

vars == <<size, w, wpos, r, rpos, ret, arg, stream, blocks, mu, pc, call, todo, acc, origin,
          readers>>

-----------------------------------------------------------------------------
(* Bounds of the model *)

\* the writer is driven until it holds this many bits
MaxBits == 8
\* a reader's buffer has at most this many words
MaxWords == 2
\* the cursor calls of the writer address the positions up to this one
MaxPos == 4
\* number of concurrent callers of one writer
NProcs == 3
\* the constructors are called with paddings up to the word size plus this
PadSlack == 2

-----------------------------------------------------------------------------
(* Go integer arithmetic and bit vectors *)

Min(a, b) == IF a < b THEN a ELSE b

Max(a, b) == IF a > b THEN a ELSE b

\* Go's / on int truncates toward zero
GoDiv(a, b) == IF a >= 0 THEN a \div b ELSE -((-a) \div b)

\* Go's % on int has the sign of the dividend
GoMod(a, b) == a - b * GoDiv(a, b)

\* x << k in an unsigned type of the given width: bits shifted out are lost
Shl(x, k, width) == {b + k : b \in {c \in x : c + k < width}}

\* x >> k
Shr(x, k) == {b - k : b \in {c \in x : c >= k}}

NoPanic == ""
PaddingPanic == "bitstream: padding sum must be less than element bit size"
ShiftPanic == "runtime error: negative shift amount"
IndexPanic == "runtime error: index out of range"

-----------------------------------------------------------------------------
(* BitReader *)

NoReader == [panic |-> NoPanic, data |-> <<>>, bits |-> 0, s |-> 0, msb |-> {}]

\* NewBitReader with the msb mask at the top bit of the word, the left padding
\* forgotten
NewBitReader_top(sz, data, leftPadd, rightPadd) ==
    IF leftPadd + rightPadd >= sz
    THEN [NoReader EXCEPT !.panic = PaddingPanic]
    ELSE LET s == sz - leftPadd - rightPadd
         IN [panic |-> NoPanic,
             data  |-> data,
             bits  |-> Len(data) * s,
             s     |-> s,
             msb   |-> Shl({0}, sz - 1, sz)]

\* NewBitReader with the padding check off by one (> for >=)
NewBitReader_gt(sz, data, leftPadd, rightPadd) ==
    IF leftPadd + rightPadd > sz
    THEN [NoReader EXCEPT !.panic = PaddingPanic]
    ELSE IF sz - leftPadd - 1 < 0
    THEN [NoReader EXCEPT !.panic = ShiftPanic]
    ELSE LET s == sz - leftPadd - rightPadd
         IN [panic |-> NoPanic,
             data  |-> data,
             bits  |-> Len(data) * s,
             s     |-> s,
             msb   |-> Shl({0}, sz - leftPadd - 1, sz)]

NewBitReader(sz, data, leftPadd, rightPadd) ==
    IF leftPadd + rightPadd >= sz
    THEN [NoReader EXCEPT !.panic = PaddingPanic]
    ELSE IF sz - leftPadd - 1 < 0
    THEN [NoReader EXCEPT !.panic = ShiftPanic]
    ELSE LET s == sz - leftPadd - rightPadd
         IN [panic |-> NoPanic,
             data  |-> data,
             bits  |-> Len(data) * s,
             s     |-> s,
             msb   |-> Shl({0}, sz - leftPadd - 1, sz)]

\* SetBits that also clears, in the words of its slice, the bits it cuts off
SetBits_clear(rd, bits) ==
    [rd EXCEPT !.bits = bits,
               !.data = [i \in 1 .. Len(rd.data) |->
                            rd.data[i] \ UNION {Shr(rd.msb, o) :
                                o \in {x \in 0 .. rd.s - 1 : (i - 1) * rd.s + x >= bits}}]]

\* SetBits that keeps the bit count of the construction
SetBits_keep(rd, bits) == rd

SetBits(rd, bits) == [rd EXCEPT !.bits = bits]

\* rightStep with the mask shifted by the bit index i, not by i % s
rightStep_shift(rd, i, b) ==
    LET b1 == Shl(b, 1, 64)
        idx == GoDiv(i, rd.s)
    IN IF i < 0
       THEN [panic |-> ShiftPanic, val |-> {}]
       ELSE IF idx < 0 \/ idx >= Len(rd.data)
       THEN [panic |-> IndexPanic, val |-> {}]
       ELSE [panic |-> NoPanic,
             val   |-> IF (rd.data[idx + 1] \cap Shr(rd.msb, i)) # {}
                       THEN b1 \cup {0}
                       ELSE b1]

\* one iteration of the first loop of right, lines 170-174: b is shifted and
\* bit i of the stream is put in its lowest position
rightStep(rd, i, b) ==
    LET b1 == Shl(b, 1, 64)
        sh == GoMod(i, rd.s)
        idx == GoDiv(i, rd.s)
    IN IF sh < 0
       THEN [panic |-> ShiftPanic, val |-> {}]
       ELSE IF idx < 0 \/ idx >= Len(rd.data)
       THEN [panic |-> IndexPanic, val |-> {}]
       ELSE [panic |-> NoPanic,
             val   |-> IF (rd.data[idx + 1] \cap Shr(rd.msb, sh)) # {}
                       THEN b1 \cup {0}
                       ELSE b1]

\* rightLoop with the mask shifted by the bit index i, not by i % s
RECURSIVE rightLoop_shift(_, _, _, _)
rightLoop_shift(rd, i, e, got) ==
    IF i >= e \/ got.panic # NoPanic
    THEN got
    ELSE rightLoop_shift(rd, i + 1, e, rightStep_shift(rd, i, got.val))

\* the first loop of right: one iteration per bit i of [i, e), until a panic
RECURSIVE rightLoop(_, _, _, _)
rightLoop(rd, i, e, got) ==
    IF i >= e \/ got.panic # NoPanic
    THEN got
    ELSE rightLoop(rd, i + 1, e, rightStep(rd, i, got.val))

\* right without its second loop: a short read is not filled with zero bits
right_nofill(rd, bits, n) ==
    LET s == Min(n * bits, rd.bits)
        e == Min(s + bits, rd.bits)
    IN rightLoop(rd, s, e, [panic |-> NoPanic, val |-> {}])

\* right whose second loop shifts bits times, whatever the first loop read
right_overfill(rd, bits, n) ==
    LET s == Min(n * bits, rd.bits)
        e == Min(s + bits, rd.bits)
        got == rightLoop(rd, s, e, [panic |-> NoPanic, val |-> {}])
    IN IF got.panic # NoPanic
       THEN got
       ELSE [panic |-> NoPanic, val |-> Shl(got.val, bits, 64)]

right(rd, bits, n) ==
    LET s == Min(n * bits, rd.bits)
        e == Min(s + bits, rd.bits)
        got == rightLoop(rd, s, e, [panic |-> NoPanic, val |-> {}])
        fill == bits - (e - s)
    IN IF got.panic # NoPanic
       THEN got
       ELSE [panic |-> NoPanic,
             val   |-> IF fill > 0 THEN Shl(got.val, fill, 64) ELSE got.val]

\* the conversion uintN(x) of a uint64
Narrow(x, width) == x \cap (0 .. width - 1)

ReadPanic(width) ==
    CASE width = 8  -> "bitstream: cannot read more than 8 bits into uint16"
      [] width = 16 -> "bitstream: cannot read more than 16 bits into uint16"
      [] width = 32 -> "bitstream: cannot read more than 32 bits into uint16"
      [] width = 64 -> "bitstream: cannot read more than 64 bits into uint16"

\* ReadNR with the bit count checked against 64, whatever the result width
ReadNR_wide(rd, width, bits, n) ==
    IF bits > 64
    THEN [panic |-> ReadPanic(width), val |-> {}]
    ELSE LET got == right(rd, bits, n)
         IN [got EXCEPT !.val = Narrow(got.val, width)]

\* ReadNR for the result width N = 8, 16, 32, 64
ReadNR(rd, width, bits, n) ==
    IF bits > width
    THEN [panic |-> ReadPanic(width), val |-> {}]
    ELSE LET got == right(rd, bits, n)
         IN [got EXCEPT !.val = Narrow(got.val, width)]

Read8R(rd, bits, n) == ReadNR(rd, 8, bits, n)

Read16R(rd, bits, n) == ReadNR(rd, 16, bits, n)

Read32R(rd, bits, n) == ReadNR(rd, 32, bits, n)

Read64R(rd, bits, n) == ReadNR(rd, 64, bits, n)

-----------------------------------------------------------------------------
(* BitWriter *)

NoWriter ==
    [panic |-> NoPanic, data |-> <<>>, bits |-> 0, s |-> 0, msb |-> {}, lp |-> 0, rp |-> 0]

\* NewBitWriter with the right padding counted into the span
NewBitWriter_span(sz, leftPadd, rightPadd) ==
    IF leftPadd + rightPadd >= sz
    THEN [NoWriter EXCEPT !.panic = PaddingPanic]
    ELSE [panic |-> NoPanic,
          data  |-> <<>>,
          bits  |-> 0,
          s     |-> sz - leftPadd,
          msb   |-> Shl({0}, sz - leftPadd - 1, sz),
          lp    |-> leftPadd,
          rp    |-> rightPadd]

\* NewBitWriter with the msb mask at the top bit of the word, the left padding
\* forgotten
NewBitWriter_top(sz, leftPadd, rightPadd) ==
    IF leftPadd + rightPadd >= sz
    THEN [NoWriter EXCEPT !.panic = PaddingPanic]
    ELSE [panic |-> NoPanic,
          data  |-> <<>>,
          bits  |-> 0,
          s     |-> sz - leftPadd - rightPadd,
          msb   |-> Shl({0}, sz - 1, sz),
          lp    |-> leftPadd,
          rp    |-> rightPadd]

NewBitWriter(sz, leftPadd, rightPadd) ==
    IF leftPadd + rightPadd >= sz
    THEN [NoWriter EXCEPT !.panic = PaddingPanic]
    ELSE IF sz - leftPadd - 1 < 0
    THEN [NoWriter EXCEPT !.panic = ShiftPanic]
    ELSE [panic |-> NoPanic,
          data  |-> <<>>,
          bits  |-> 0,
          s     |-> sz - leftPadd - rightPadd,
          msb   |-> Shl({0}, sz - leftPadd - 1, sz),
          lp    |-> leftPadd,
          rp    |-> rightPadd]

\* write with the bit offset taken modulo the word size instead of the span s
write_offset(wr, b) ==
    LET idx == GoDiv(wr.bits, wr.s)
        data1 == IF idx >= Len(wr.data) THEN Append(wr.data, {}) ELSE wr.data
        sh == GoMod(wr.bits, wr.s + wr.lp + wr.rp)
    IN IF ~b
       THEN [wr EXCEPT !.data = data1, !.bits = wr.bits + 1]
       ELSE [wr EXCEPT !.data = [data1 EXCEPT ![idx + 1] = @ \cup Shr(wr.msb, sh)],
                       !.bits = wr.bits + 1]

\* write with the word index computed from the word size instead of the span s
write_wordsize(wr, b) ==
    LET idx == GoDiv(wr.bits, wr.s + wr.lp + wr.rp)
        data1 == IF idx >= Len(wr.data) THEN Append(wr.data, {}) ELSE wr.data
    IN IF ~b
       THEN [wr EXCEPT !.data = data1, !.bits = wr.bits + 1]
       ELSE [wr EXCEPT !.data = [data1 EXCEPT ![idx + 1] =
                                    @ \cup Shr(wr.msb, GoMod(wr.bits, wr.s))],
                       !.bits = wr.bits + 1]

\* writeGrow that appends a word whose last bit of the valid span is set
writeGrow_dirty(wr) ==
    IF GoDiv(wr.bits, wr.s) >= Len(wr.data)
    THEN [wr EXCEPT !.data = Append(@, Shr(wr.msb, wr.s - 1))]
    ELSE wr

\* write, lines 313-316: the word index of the next bit; the buffer grows by
\* one zero word when that word is not allocated
writeGrow(wr) ==
    IF GoDiv(wr.bits, wr.s) >= Len(wr.data)
    THEN [wr EXCEPT !.data = Append(@, {})]
    ELSE wr

\* write, lines 317-319: the bit is set in word idx, the index computed before
writeSet(wr, idx, b) ==
    LET sh == GoMod(wr.bits, wr.s)
    IN IF ~b THEN wr
       ELSE IF sh < 0 THEN [wr EXCEPT !.panic = ShiftPanic]
       ELSE IF idx < 0 \/ idx >= Len(wr.data) THEN [wr EXCEPT !.panic = IndexPanic]
       ELSE [wr EXCEPT !.data[idx + 1] = @ \cup Shr(wr.msb, sh)]

\* write without its last statement
writeCount_skip(wr) == wr

\* write, line 320
writeCount(wr) == IF wr.panic # NoPanic THEN wr ELSE [wr EXCEPT !.bits = @ + 1]

\* the single-bit append every block write reduces to
write(wr, b) == writeCount(writeSet(writeGrow(wr), GoDiv(wr.bits, wr.s), b))

\* the loop of a block write over a source of the given width, from index i
RECURSIVE writeLoop(_, _, _, _, _)
writeLoop(wr, i, end, width, data) ==
    IF i >= end \/ wr.panic # NoPanic
    THEN wr
    ELSE IF width - 1 - i < 0
    THEN [wr EXCEPT !.panic = ShiftPanic]
    ELSE writeLoop(write(wr, (data \cap Shl({0}, width - 1 - i, width)) # {}),
                   i + 1, end, width, data)

WritePanic(width) ==
    CASE width = 8  -> "bitstream: padding and bits exceed uint8 size"
      [] width = 16 -> "bitstream: padding and bits exceed uint16 size"
      [] width = 32 -> "bitstream: padding and bits exceed uint32 size"
      [] width = 64 -> "bitstream: padding and bits exceed uint64 size"

\* WriteN for the source width N = 8, 16, 32, 64
WriteN(wr, width, leftPadd, bits, data) ==
    IF leftPadd + bits > width
    THEN [wr EXCEPT !.panic = WritePanic(width)]
    ELSE writeLoop(wr, leftPadd, leftPadd + bits, width, data)

Write8(wr, leftPadd, bits, data) == WriteN(wr, 8, leftPadd, bits, data)

Write16(wr, leftPadd, bits, data) == WriteN(wr, 16, leftPadd, bits, data)

Write32(wr, leftPadd, bits, data) == WriteN(wr, 32, leftPadd, bits, data)

Write64(wr, leftPadd, bits, data) == WriteN(wr, 64, leftPadd, bits, data)

WriteBool(wr, data) == write(wr, data)

Data(wr) == wr.data

AnyData(wr) == wr.data

Bits(wr) == wr.bits

-----------------------------------------------------------------------------
(* The writer's cursor operations.  Their code is not among the sources;   *)
(* they are modelled from sections 3 and 4.3 of the specification.          *)

ErrNegativePosition == "bitstream: negative position"

\* the buffer grown with zero words until word idx exists
RECURSIVE Grow(_, _)
Grow(data, idx) == IF idx < Len(data) THEN data ELSE Grow(Append(data, {}), idx)

\* The logical bit count after a write at pos >= 0.  The specification gives
\* the count two rules.  Section 3 keeps len(buffer) = ceil(bits / s) with a
\* count that never decreases, and section 4.3 lets a write at pos overwrite a
\* written bit or grow the buffer up to pos: the written bit is counted, so
\* the count is at least max(bits, pos + 1).  Section 3 also says that every
\* write operation increments the count: bits + 1.  The two agree for a write
\* at the end (pos = bits).  For an overwrite (pos < bits) both outcomes are
\* kept when both satisfy the buffer invariant, that is when the last word
\* has room for one more bit; otherwise only the first does.  For a write
\* beyond the end (pos > bits) bits + 1 would leave the written bit outside
\* the count, and only the first is kept.
writeBitAtCounts(wr, pos) ==
    {Max(wr.bits, pos + 1)} \cup
        {n \in {wr.bits + 1} : pos < wr.bits /\ wr.bits % wr.s # 0}

\* bit pos of the stream set or cleared in the buffer grown up to its word;
\* n is the logical bit count afterwards, one of writeBitAtCounts(wr, pos)
writeBitAt(wr, pos, bit, n) ==
    LET idx == pos \div wr.s
        mask == Shr(wr.msb, pos % wr.s)
        data1 == Grow(wr.data, idx)
    IN [wr EXCEPT !.data = [data1 EXCEPT ![idx + 1] =
                                IF bit THEN @ \cup mask ELSE @ \ mask],
                  !.bits = n]

-----------------------------------------------------------------------------
(* The reader's cursor operations.  Their code is not among the sources;   *)
(* they are modelled from sections 3 and 4.2 of the specification and the  *)
(* README.                                                                  *)

\* the error values of the cursor operations: nil and io.EOF
NoError == "nil"

EOF == "EOF"

\* the bit at pos of the reader's stream, with the error ReadBitAt reports; the
\* bit is read with the reader's own mask and span, as the block reads do
readBitAt(rd, pos) ==
    IF pos < 0 THEN [bit |-> FALSE, err |-> ErrNegativePosition]
    ELSE IF pos >= rd.bits THEN [bit |-> FALSE, err |-> EOF]
    ELSE [bit |-> (rd.data[GoDiv(pos, rd.s) + 1] \cap Shr(rd.msb, GoMod(pos, rd.s))) # {},
          err |-> NoError]

-----------------------------------------------------------------------------
(* Inputs *)

\* the bit vector of a number below 2^16
Word(n) == {k \in 0 .. 15 : (n \div 2^k) % 2 = 1}

AllOnes(width) == 0 .. width - 1

\* the element types: uint8, uint16, uint32, uint64
WordSizes == {8, 16, 32, 64}

\* the words a reader's buffer is filled with
SampleWords(sz) ==
    IF sz = 8 THEN {Word(172), Word(227), Word(255)} ELSE {Word(44259), Word(50144)}

RECURSIVE SeqsUpTo(_, _)
SeqsUpTo(S, n) ==
    IF n = 0
    THEN {<<>>}
    ELSE LET shorter == SeqsUpTo(S, n - 1)
         IN shorter \cup {Append(q, x) : q \in {p \in shorter : Len(p) = n - 1}, x \in S}

\* the paddings instances are built with: non-negative, lp + rp < sz
Paddings(sz) == {<<0, 0>>, <<1, 1>>, <<1, 2>>, <<sz - 4, 1>>}

NoRet == [op |-> "none", a |-> <<>>, out |-> [panic |-> NoPanic, val |-> {}]]

NoArg == [leftPadd |-> 0, rightPadd |-> 0, data |-> <<>>]

\* the parts of the state a specification does not use
IdleWriter ==
    /\ w = NoWriter
    /\ wpos = 0
    /\ stream = <<>>
    /\ blocks = [k |-> -1, vals |-> <<>>]

IdleReader ==
    /\ r = NoReader
    /\ rpos = 0
    /\ origin = 0
    /\ readers = <<>>

IdleCallers ==
    /\ mu = 0
    /\ pc = <<>>
    /\ call = <<>>
    /\ todo = <<>>
    /\ acc = {}

\* The sequential caller: it takes the result of a call before it makes the next.
Idle == ret.op = "none"

Return ==
    /\ ret.op # "none"
    /\ ret' = NoRet
    /\ UNCHANGED <<size, w, wpos, r, rpos, arg, stream, blocks, mu, pc, call, todo, acc, origin, readers>>

-----------------------------------------------------------------------------
(* SpecNew: the constructors, called with every pair of paddings *)

PadArgs(sz) == (0 - PadSlack) .. (sz + PadSlack)

InitNew ==
    /\ size \in WordSizes
    /\ arg \in [leftPadd : PadArgs(size), rightPadd : PadArgs(size),
                data : {<<>>, <<AllOnes(size)>>, <<{}, {0}>>}]
    /\ ret = NoRet
    /\ IdleWriter
    /\ IdleReader
    /\ IdleCallers

NewBitReaderCall ==
    /\ Idle
    /\ ret' = [op |-> "NewBitReader", a |-> <<>>,
               out |-> NewBitReader(size, arg.data, arg.leftPadd, arg.rightPadd)]
    /\ UNCHANGED <<size, w, wpos, r, rpos, arg, stream, blocks, mu, pc, call, todo, acc, origin, readers>>

NewBitWriterCall ==
    /\ Idle
    /\ ret' = [op |-> "NewBitWriter", a |-> <<>>,
               out |-> NewBitWriter(size, arg.leftPadd, arg.rightPadd)]
    /\ UNCHANGED <<size, w, wpos, r, rpos, arg, stream, blocks, mu, pc, call, todo, acc, origin, readers>>

NextNew == NewBitReaderCall \/ NewBitWriterCall \/ Return

SpecNew == InitNew /\ [][NextNew]_vars

\* what a constructor that did not panic must have built
Constructed ==
    /\ ret.out.s = size - arg.leftPadd - arg.rightPadd
    /\ ret.op = "NewBitReader" =>
           /\ ret.out.data = arg.data
           /\ ret.out.bits = Len(arg.data) * ret.out.s
    /\ ret.op = "NewBitWriter" =>
           /\ ret.out.data = <<>>
           /\ ret.out.bits = 0

\* C10, as stated: NewBitReader and NewBitWriter panic exactly when
\* leftPadd + rightPadd >= W, and otherwise return an instance with
\* s = W - leftPadd - rightPadd, the Reader with bits = len(data) * s, the
\* Writer with an empty buffer and bits = 0.
C10_PanicExactlyOnPaddingSum ==
    ret.op \in {"NewBitReader", "NewBitWriter"} =>
        /\ ret.out.panic # NoPanic <=> arg.leftPadd + arg.rightPadd >= size
        /\ ret.out.panic = NoPanic => Constructed

\* C10 on the paddings the specification allows: with leftPadd >= 0 and
\* rightPadd >= 0 the constructors panic exactly when
\* leftPadd + rightPadd >= W, and otherwise return the instance described.
C10_NonNegativePaddings ==
    (ret.op \in {"NewBitReader", "NewBitWriter"}
         /\ arg.leftPadd >= 0 /\ arg.rightPadd >= 0) =>
        /\ ret.out.panic # NoPanic <=> arg.leftPadd + arg.rightPadd >= size
        /\ ret.out.panic = NoPanic => Constructed

\* C10 witness: a reader refused at the boundary lp + rp = W, with both paddings
\* positive
C10_Witness ==
    /\ ret.op = "NewBitReader"
    /\ ret.out.panic = PaddingPanic
    /\ arg.leftPadd + arg.rightPadd = size
    /\ arg.leftPadd > 0
    /\ arg.rightPadd > 0

\* C30: for every pair of integers (leftPadd, rightPadd), negative ones
\* included, that NewBitReader or NewBitWriter accepts without a panic, the
\* instance has a valid span 1 <= s <= W and an msb mask with exactly one bit
\* set, at position W - leftPadd - 1, inside the word.
C30_WordGeometry ==
    (ret.op \in {"NewBitReader", "NewBitWriter"} /\ ret.out.panic = NoPanic) =>
        /\ 1 <= ret.out.s
        /\ ret.out.s <= size
        /\ ret.out.msb = {size - arg.leftPadd - 1}
        /\ ret.out.msb \subseteq 0 .. size - 1

-----------------------------------------------------------------------------
(* SpecReader: a BitReader over a buffer, read by blocks, its range limited *)
(* by SetBits(n) with 0 <= n <= len(data) * s.  SpecSetBits adds SetBits    *)
(* with any integer.                                                        *)

SmallSizes == {8, 16}

ReadBitCounts == {0, 1, 3, 5, 8, 9, 12, 17, 33, 65}

BlockIndexes == {-1, 0, 1, 2, 3, 6}

InitReader ==
    /\ size \in SmallSizes
    /\ \E data \in SeqsUpTo(SampleWords(size), MaxWords), p \in Paddings(size) :
           /\ arg = [leftPadd |-> p[1], rightPadd |-> p[2], data |-> data]
           /\ r = NewBitReader(size, data, p[1], p[2])
    /\ rpos = 0
    /\ origin = 0
    /\ readers = <<>>
    /\ ret = NoRet
    /\ IdleWriter
    /\ IdleCallers

\* a panic unwinds the call; a read leaves the reader as it is either way
Read8RCall ==
    /\ Idle
    /\ \E bits \in ReadBitCounts, n \in BlockIndexes :
           ret' = [op |-> "Read8R", a |-> <<bits, n>>, out |-> Read8R(r, bits, n)]
    /\ UNCHANGED <<size, w, wpos, r, rpos, arg, stream, blocks, mu, pc, call, todo, acc, origin, readers>>

Read16RCall ==
    /\ Idle
    /\ \E bits \in ReadBitCounts, n \in BlockIndexes :
           ret' = [op |-> "Read16R", a |-> <<bits, n>>, out |-> Read16R(r, bits, n)]
    /\ UNCHANGED <<size, w, wpos, r, rpos, arg, stream, blocks, mu, pc, call, todo, acc, origin, readers>>

Read32RCall ==
    /\ Idle
    /\ \E bits \in ReadBitCounts, n \in BlockIndexes :
           ret' = [op |-> "Read32R", a |-> <<bits, n>>, out |-> Read32R(r, bits, n)]
    /\ UNCHANGED <<size, w, wpos, r, rpos, arg, stream, blocks, mu, pc, call, todo, acc, origin, readers>>

Read64RCall ==
    /\ Idle
    /\ \E bits \in ReadBitCounts, n \in BlockIndexes :
           ret' = [op |-> "Read64R", a |-> <<bits, n>>, out |-> Read64R(r, bits, n)]
    /\ UNCHANGED <<size, w, wpos, r, rpos, arg, stream, blocks, mu, pc, call, todo, acc, origin, readers>>

SetBitsTo(n) ==
    /\ Idle
    /\ r' = SetBits(r, n)
    /\ ret' = [op |-> "SetBits", a |-> <<n>>, out |-> [panic |-> NoPanic, val |-> {}]]
    /\ UNCHANGED <<size, w, wpos, rpos, arg, stream, blocks, mu, pc, call, todo, acc, origin, readers>>

\* SetBits as the range limiter
SetBitsCall == \E n \in 0 .. Len(r.data) * r.s : SetBitsTo(n)

\* SetBits with any integer
SetBitsAnyCall == \E n \in -1 .. (Len(r.data) + 1) * r.s : SetBitsTo(n)

NextReader ==
    Read8RCall \/ Read16RCall \/ Read32RCall \/ Read64RCall \/ SetBitsCall \/ Return

SpecReader == InitReader /\ [][NextReader]_vars

NextSetBits == NextReader \/ SetBitsAnyCall

SpecSetBits == InitReader /\ [][NextSetBits]_vars

\* logical bit i of a buffer of sz-bit words with left padding lp and span s
LogicalBit(data, i, sz, lp, s) == (sz - lp - 1 - (i % s)) \in data[(i \div s) + 1]

\* the number of logical bits a buffer physically holds
Capacity(data, s) == Len(data) * s

IsRead == ret.op \in {"Read8R", "Read16R", "Read32R", "Read64R"}

ReadWidth ==
    CASE ret.op = "Read8R"  -> 8
      [] ret.op = "Read16R" -> 16
      [] ret.op = "Read32R" -> 32
      [] ret.op = "Read64R" -> 64

\* the value whose digits, most significant first, are the logical bits
\* from .. to - 1 followed by zero bits up to a total of bits digits
BitsThenZeros(from, to, bits) ==
    {j \in 0 .. bits - 1 :
        /\ from + (bits - 1 - j) < to
        /\ LogicalBit(arg.data, from + (bits - 1 - j), size, arg.leftPadd,
                      size - arg.leftPadd - arg.rightPadd)}

\* the reader's buffer with every padding bit of every word inverted
PaddingBits == (0 .. arg.rightPadd - 1) \cup (size - arg.leftPadd .. size - 1)

PaddingFlipped ==
    [r EXCEPT !.data =
        [i \in 1 .. Len(r.data) |-> (r.data[i] \ PaddingBits) \cup (PaddingBits \ r.data[i])]]

\* C3: a block read ReadNR(bits, n) whose range [n*bits, n*bits+bits) lies
\* inside [0, logical bit count) returns the value whose binary digits, most
\* significant first, are the logical bits of the range, logical bit i being
\* bit W-lp-1-(i mod s) of word i div s; the padding bits of the words
\* contribute nothing to the result.
C3_BlockReadValue ==
    IsRead =>
        LET bits == ret.a[1]
            n == ret.a[2]
        IN (0 <= bits /\ bits <= ReadWidth /\ 0 <= n * bits /\ n * bits + bits <= r.bits) =>
               /\ ret.out.panic = NoPanic
               /\ ret.out.val = BitsThenZeros(n * bits, n * bits + bits, bits)
               /\ ret.out = ReadNR(PaddingFlipped, ReadWidth, bits, n)

\* C3 witness: a read of 5 bits or more, of a padded buffer, whose range spans
\* two words and holds ones and zeros
C3_Witness ==
    /\ IsRead
    /\ ret.out.panic = NoPanic
    /\ ret.a[1] >= 5
    /\ ret.a[2] >= 1
    /\ ret.a[2] * ret.a[1] + ret.a[1] <= r.bits
    /\ (ret.a[2] * ret.a[1]) \div r.s < (ret.a[2] * ret.a[1] + ret.a[1] - 1) \div r.s
    /\ arg.leftPadd > 0
    /\ arg.rightPadd > 0
    /\ ret.out.val # {}
    /\ ret.out.val # 0 .. ret.a[1] - 1

\* C4: for n >= 0 and 0 <= bits <= result width, with
\* start = min(n*bits, logicalBits) and end = min(start+bits, logicalBits),
\* ReadNR(bits, n) returns without error the end-start available logical bits
\* followed by zero bits, bits digits in all; 0 when start = end.
C4_ZeroFill ==
    IsRead =>
        LET bits == ret.a[1]
            n == ret.a[2]
            start == Min(n * bits, r.bits)
            stop == Min(start + bits, r.bits)
        IN (n >= 0 /\ 0 <= bits /\ bits <= ReadWidth) =>
               /\ ret.out.panic = NoPanic
               /\ ret.out.val = BitsThenZeros(start, stop, bits)
               /\ start = stop => ret.out.val = {}

\* C4 witness: a read that finds some but not all of its bits, one of them a 1,
\* in a reader whose range SetBits has limited
C4_Witness ==
    /\ IsRead
    /\ ret.out.panic = NoPanic
    /\ ret.a[2] >= 1
    /\ r.bits < Capacity(r.data, r.s)
    /\ ret.a[2] * ret.a[1] < r.bits
    /\ ret.a[2] * ret.a[1] + ret.a[1] > r.bits
    /\ ret.out.val # {}

\* C8: in every reachable reader state, after SetBits(n) with any integer n,
\* the logical bit count is at most len(buffer) * s, so that no read (of a
\* block index n >= 0) addresses a word outside the buffer.
C8_ReaderBitsWithinBuffer ==
    /\ r.bits <= Capacity(r.data, r.s)
    /\ (IsRead /\ ret.a[2] >= 0) => ret.out.panic # IndexPanic

\* C24: for every block index n - negative, inside the stream or far beyond
\* its end - and every bit count 0 <= bits <= result width, ReadNR(bits, n)
\* returns a value and does not panic, and it returns 0 when its range
\* [n*bits, n*bits + bits) has no position in [0, logical bit count).
C24_BlockReadTotal ==
    IsRead =>
        LET bits == ret.a[1]
            n == ret.a[2]
        IN (0 <= bits /\ bits <= ReadWidth) =>
               /\ ret.out.panic = NoPanic
               /\ (n * bits + bits <= 0 \/ n * bits >= r.bits) => ret.out.val = {}

\* C29: for 0 <= bits <= result width, the 64-bit value right computes for
\* ReadNR(bits, n) is below 2^bits - no bit at position bits or above is set -
\* so the conversion to uint8, uint16 or uint32 drops no set bit, and for
\* bits <= 8 Read8R, Read16R, Read32R and Read64R return the same number.
C29_RightAligned ==
    IsRead =>
        LET bits == ret.a[1]
            n == ret.a[2]
            b == right(r, bits, n)
        IN (0 <= bits /\ bits <= ReadWidth /\ b.panic = NoPanic) =>
               /\ b.val \subseteq 0 .. bits - 1
               /\ Narrow(b.val, ReadWidth) = b.val
               /\ ret.out = b
               /\ bits <= 8 =>
                      /\ Read8R(r, bits, n) = b
                      /\ Read16R(r, bits, n) = b
                      /\ Read32R(r, bits, n) = b
                      /\ Read64R(r, bits, n) = b

\* C29 witness: Read8R(8, 1) of a padded buffer limited by SetBits found a 1
\* as the first bit of its range and not all 8 bits: the result has bit 7 set
\* and zeros below
C29_Witness ==
    /\ ret.op = "Read8R"
    /\ ret.a = <<8, 1>>
    /\ ret.out.panic = NoPanic
    /\ 7 \in ret.out.val
    /\ 0 \notin ret.out.val
    /\ r.bits > 8
    /\ r.bits < 16
    /\ arg.leftPadd > 0
    /\ arg.rightPadd > 0

\* a block read that returns or panics
ReadStep == ret.op = "none" /\ ret'.op \in {"Read8R", "Read16R", "Read32R", "Read64R"}

\* C11: a block read whose bit count exceeds the width of its result (Read8R
\* with bits > 8, Read16R > 16, Read32R > 32, Read64R > 64) panics, for every
\* block index and buffer, and leaves the reader's buffer, bit count and
\* cursor as they were.
C11_ReadPanics ==
    /\ []((IsRead /\ ret.a[1] > ReadWidth) => ret.out.panic = ReadPanic(ReadWidth))
    /\ [][ReadStep => (r' = r /\ rpos' = rpos)]_vars

\* C11 witness: Read32R of 33 bits panicked over a buffer of two words that
\* SetBits had cut
C11_Witness ==
    /\ ret.op = "Read32R"
    /\ ret.a[1] = 33
    /\ ret.out.panic = ReadPanic(32)
    /\ Len(r.data) = 2
    /\ r.bits < Len(r.data) * r.s

-----------------------------------------------------------------------------
(* SpecCursor: one BitReader, its cursor calls and SetBits as the range    *)
(* limiter.  stream is the bits ReadBit returned since the cursor was put  *)
(* at origin.                                                              *)

\* the positions the calls address: before the start, the start, a word
\* boundary, around the end of the stream and far beyond it
Positions == {-2, -1, 0, 1, r.s, r.bits - 1, r.bits, r.bits + 1, r.bits + MaxPos}

\* the bit counts SetBits limits the stream to: none, one, the middle of a
\* word, and the capacity of the buffer or a bit less
Limits == {0, 1, 5, Len(r.data) * r.s - 1, Len(r.data) * r.s} \cap (0 .. Len(r.data) * r.s)

SetBitsLimitCall == \E n \in Limits : SetBitsTo(n)

CursorResult(op, a, val) ==
    [op |-> op, a |-> a, out |-> [panic |-> NoPanic, val |-> val]]

\* ReadBit: the bit at the cursor; the cursor advances unless the read fails
ReadBitCall ==
    LET got == readBitAt(r, rpos)
    IN /\ Idle
       /\ ret' = CursorResult("ReadBit", <<rpos>>, got)
       /\ IF got.err = NoError
          THEN /\ rpos' = rpos + 1
               /\ stream' = Append(stream, got.bit)
          ELSE UNCHANGED <<rpos, stream>>
       /\ UNCHANGED <<size, w, wpos, r, arg, blocks, mu, pc, call, todo, acc, origin, readers>>

\* ReadBitAt: the bit at pos; the cursor stays
ReadBitAtCall ==
    \E pos \in Positions :
        /\ Idle
        /\ ret' = CursorResult("ReadBitAt", <<pos>>, readBitAt(r, pos))
        /\ UNCHANGED <<size, w, wpos, r, rpos, arg, stream, blocks, mu, pc, call, todo, acc, origin, readers>>

\* Seek that rewinds the cursor when it rejects a negative position
ReaderSeekCall_rewind ==
    \E pos \in Positions :
        /\ Idle
        /\ ret' = CursorResult("Seek", <<pos>>, IF pos < 0 THEN ErrNegativePosition ELSE NoError)
        /\ rpos' = Max(pos, 0)
        /\ origin' = Max(pos, 0)
        /\ stream' = <<>>
        /\ UNCHANGED <<size, w, wpos, r, arg, blocks, mu, pc, call, todo, acc, readers>>

\* Seek that stops at the end of the stream
ReaderSeekCall_clamped ==
    \E pos \in Positions :
        /\ Idle
        /\ IF pos < 0
           THEN /\ ret' = CursorResult("Seek", <<pos>>, ErrNegativePosition)
                /\ UNCHANGED <<rpos, origin, stream>>
           ELSE /\ ret' = CursorResult("Seek", <<pos>>, NoError)
                /\ rpos' = Min(pos, r.bits)
                /\ origin' = Min(pos, r.bits)
                /\ stream' = <<>>
        /\ UNCHANGED <<size, w, wpos, r, arg, blocks, mu, pc, call, todo, acc, readers>>

\* Seek: the cursor is put at pos, any pos >= 0
ReaderSeekCall ==
    \E pos \in Positions :
        /\ Idle
        /\ IF pos < 0
           THEN /\ ret' = CursorResult("Seek", <<pos>>, ErrNegativePosition)
                /\ UNCHANGED <<rpos, origin, stream>>
           ELSE /\ ret' = CursorResult("Seek", <<pos>>, NoError)
                /\ rpos' = pos
                /\ origin' = pos
                /\ stream' = <<>>
        /\ UNCHANGED <<size, w, wpos, r, arg, blocks, mu, pc, call, todo, acc, readers>>

ReaderPosCall ==
    /\ Idle
    /\ ret' = CursorResult("Pos", <<>>, rpos)
    /\ UNCHANGED <<size, w, wpos, r, rpos, arg, stream, blocks, mu, pc, call, todo, acc, origin, readers>>

NextCursor ==
    \/ ReadBitCall
    \/ ReadBitAtCall
    \/ ReaderSeekCall
    \/ ReaderPosCall
    \/ SetBitsLimitCall
    \/ Return

SpecCursor == InitReader /\ [][NextCursor]_vars

\* logical bit p of the reader's buffer, by the word geometry
StreamBit(p) ==
    LogicalBit(arg.data, p, size, arg.leftPadd, size - arg.leftPadd - arg.rightPadd)

\* C13: ReadBit with the cursor p in 0 <= p < bit count returns logical bit p
\* with no error and the cursor becomes p + 1; with p >= bit count it returns
\* (false, io.EOF) and the cursor stays at p.  The cursor is where it was put
\* plus the number of successful reads since, so from cursor 0 it equals the
\* number of successful reads.
C13_ReadBit ==
    /\ ret.op = "ReadBit" =>
           LET p == ret.a[1]
           IN IF p < r.bits
              THEN /\ ret.out.val = [bit |-> StreamBit(p), err |-> NoError]
                   /\ rpos = p + 1
              ELSE /\ ret.out.val = [bit |-> FALSE, err |-> EOF]
                   /\ rpos = p
    /\ rpos = origin + Len(stream)
    /\ \A i \in 1 .. Len(stream) : stream[i] = StreamBit(origin + i - 1)

\* C13 witness: from cursor 0 of a padded reader limited by SetBits, five reads
\* returned ones and zeros across a word boundary and the sixth io.EOF
C13_Witness ==
    /\ ret.op = "ReadBit"
    /\ ret.out.val.err = EOF
    /\ origin = 0
    /\ rpos = 5
    /\ Len(stream) = 5
    /\ \E i, j \in 1 .. 5 : stream[i] /\ ~stream[j]
    /\ r.s < 5
    /\ arg.leftPadd > 0
    /\ r.bits < Len(r.data) * r.s

\* C14: ReadBitAt(pos) never moves the cursor: it returns logical bit pos with
\* no error when 0 <= pos < bit count, (false, io.EOF) when pos >= bit count
\* and ErrNegativePosition when pos < 0.
C14_ReadBitAt ==
    /\ [](ret.op = "ReadBitAt" =>
             LET pos == ret.a[1]
             IN ret.out.val =
                    IF pos < 0 THEN [bit |-> FALSE, err |-> ErrNegativePosition]
                    ELSE IF pos >= r.bits THEN [bit |-> FALSE, err |-> EOF]
                    ELSE [bit |-> StreamBit(pos), err |-> NoError])
    /\ [][(ret.op = "none" /\ ret'.op = "ReadBitAt") =>
             (rpos' = rpos /\ r' = r)]_vars

\* C14 witness: with the cursor moved into the stream, ReadBitAt returned a 1
\* from the second word of a padded reader, behind the cursor
C14_Witness ==
    /\ ret.op = "ReadBitAt"
    /\ ret.out.val = [bit |-> TRUE, err |-> NoError]
    /\ ret.a[1] >= r.s
    /\ rpos > 0
    /\ rpos < ret.a[1]
    /\ arg.leftPadd > 0
    /\ arg.rightPadd > 0

-----------------------------------------------------------------------------
(* SpecLimit: one BitReader limited by SetBits, read by block reads and by *)
(* ReadBit and ReadBitAt.                                                  *)

NextLimit ==
    \/ SetBitsLimitCall
    \/ Read8RCall
    \/ Read16RCall
    \/ Read32RCall
    \/ Read64RCall
    \/ ReadBitCall
    \/ ReadBitAtCall
    \/ Return

SpecLimit == InitReader /\ [][NextLimit]_vars

\* the value of bits digits, most significant first, whose digit j is logical
\* bit n * bits + j where that is below the limit, and 0 from the limit on
LimitedBlock(bits, n, limit) ==
    {k \in 0 .. bits - 1 :
        LET i == n * bits + (bits - 1 - k)
        IN i < limit /\ StreamBit(i)}

\* C17: after SetBits(n) with 0 <= n <= len(data) * s, Bits() = n and the
\* buffer is untouched; ReadBit and ReadBitAt succeed exactly for positions
\* below n and return io.EOF from n on; block reads take every logical bit at
\* index >= n as zero, whatever the buffer holds there.
C17_RangeLimit ==
    /\ ret.op = "SetBits" => r.bits = ret.a[1]
    /\ r.data = arg.data
    /\ (ret.op \in {"ReadBit", "ReadBitAt"} /\ ret.a[1] >= 0) =>
           ret.out.val = IF ret.a[1] < r.bits
                         THEN [bit |-> StreamBit(ret.a[1]), err |-> NoError]
                         ELSE [bit |-> FALSE, err |-> EOF]
    /\ (IsRead /\ ret.a[1] \in 0 .. ReadWidth /\ ret.a[2] >= 0) =>
           ret.out = [panic |-> NoPanic, val |-> LimitedBlock(ret.a[1], ret.a[2], r.bits)]

\* C17 witness: data 0xFF with lp = rp = 1 limited by SetBits(5): the 8-bit
\* read of block 0 gives 0b11111000
C17_Witness ==
    /\ size = 8
    /\ arg = [leftPadd |-> 1, rightPadd |-> 1, data |-> <<Word(255)>>]
    /\ r.bits = 5
    /\ ret.op = "Read8R"
    /\ ret.a = <<8, 0>>
    /\ ret.out.val = Word(248)

\* (word[p div s] & (msb >> (p mod s))) != 0
MaskedBit(rd, p) == (rd.data[p \div rd.s + 1] \cap Shr(rd.msb, p % rd.s)) # {}

\* a bit as the value of a 1-bit block read
AsValue(bit) == IF bit THEN {0} ELSE {}

\* C25: for every position p with 0 <= p < logical bit count, ReadBitAt(p),
\* ReadBit with the cursor at p and the 1-bit block read Read8R(1, p), as 1 or
\* 0, give the same bit: (word[p div s] & (msb >> (p mod s))) != 0.
C25_ReadPathsAgree ==
    /\ (ret.op \in {"ReadBit", "ReadBitAt"} /\ 0 <= ret.a[1] /\ ret.a[1] < r.bits) =>
           /\ ret.out.val.err = NoError
           /\ Read8R(r, 1, ret.a[1]) = [panic |-> NoPanic, val |-> AsValue(ret.out.val.bit)]
           /\ ret.out.val.bit = MaskedBit(r, ret.a[1])
    /\ (ret.op = "Read8R" /\ ret.a[1] = 1 /\ 0 <= ret.a[2] /\ ret.a[2] < r.bits) =>
           /\ ret.out.val = AsValue(readBitAt(r, ret.a[2]).bit)
           /\ ret.out.val = AsValue(MaskedBit(r, ret.a[2]))

\* C25 witness: ReadBit with the cursor at 6, in the second word of a padded
\* buffer limited by SetBits, returned a 1, the bit Read8R(1, 6) returns
C25_Witness ==
    /\ ret.op = "ReadBit"
    /\ ret.a = <<6>>
    /\ ret.out.val = [bit |-> TRUE, err |-> NoError]
    /\ rpos = 7
    /\ r.s = 5
    /\ r.bits < Capacity(r.data, r.s)
    /\ Read8R(r, 1, 6).val = {0}
    /\ ~readBitAt(r, 5).bit

-----------------------------------------------------------------------------
(* Spec: one BitWriter and a sequential caller.  SpecAppend is the same    *)
(* writer driven by the append calls alone.                                 *)

\* the paddings the writer is built with: non-negative, lp + rp < sz
WriterPaddings(sz) ==
    IF sz = 8 THEN {<<0, 0>>, <<1, 0>>, <<1, 2>>, <<4, 1>>} ELSE {<<9, 2>>}

\* source values of a block write: 1...1, 0101...01 and 10...010
Sources(width) ==
    {AllOnes(width), {k \in 0 .. width - 1 : k % 2 = 0}, {width - 1, 1}}

WriteBitCounts == {0, 1, 3, 8}

\* (leftPadd, bits) of a block write: from the top of the source, its low
\* bits, and one bit more than the source holds
BlockArgs(width) ==
    {<<0, b>> : b \in WriteBitCounts} \cup
    {<<width - b, b>> : b \in WriteBitCounts} \cup
    {<<width - 2, 3>>, <<1, width>>}

\* the bits a block write selects: positions leftPadd .. leftPadd+bits-1 of the
\* source, counted from its most significant bit
Selected(width, leftPadd, bits, data) ==
    [j \in 1 .. bits |-> (width - leftPadd - j) \in data]

InitWriter ==
    /\ size \in SmallSizes
    /\ \E p \in WriterPaddings(size) :
           /\ arg = [leftPadd |-> p[1], rightPadd |-> p[2], data |-> <<>>]
           /\ w = NewBitWriter(size, p[1], p[2])
    /\ wpos = 0
    /\ stream = <<>>
    /\ blocks = [k |-> -1, vals |-> <<>>]
    /\ ret = NoRet
    /\ IdleReader
    /\ IdleCallers

\* the block writes so far, when all have one bit count k and write the low k
\* bits of their source: k = -1 before the first write, -2 once the writes differ
BlocksAfter(width, leftPadd, bits, data) ==
    IF blocks.k \in {-1, bits} /\ leftPadd = width - bits
    THEN [k |-> bits, vals |-> Append(blocks.vals, data \cap (0 .. bits - 1))]
    ELSE [k |-> -2, vals |-> <<>>]

\* a call of WriteN that leaves the cursor at the end of the stream
BlockWrite_moves(op, width, leftPadd, bits, data) ==
    LET w2 == WriteN(w, width, leftPadd, bits, data)
    IN /\ Idle
       /\ w.bits + bits <= MaxBits
       /\ Len(blocks.vals) < MaxBits
       /\ w' = [w2 EXCEPT !.panic = NoPanic]
       /\ wpos' = w2.bits
       /\ ret' = [op |-> op, a |-> <<>>, out |-> [panic |-> w2.panic, val |-> {}]]
       /\ IF w2.panic = NoPanic
          THEN /\ stream' = stream \o Selected(width, leftPadd, bits, data)
               /\ blocks' = BlocksAfter(width, leftPadd, bits, data)
          ELSE UNCHANGED <<stream, blocks>>
       /\ UNCHANGED <<size, r, rpos, arg, mu, pc, call, todo, acc, origin, readers>>

\* a call of WriteN: a panic unwinds the call and leaves what was written
BlockWrite(op, width, leftPadd, bits, data) ==
    LET w2 == WriteN(w, width, leftPadd, bits, data)
    IN /\ Idle
       /\ w.bits + bits <= MaxBits
       /\ Len(blocks.vals) < MaxBits
       /\ w' = [w2 EXCEPT !.panic = NoPanic]
       /\ ret' = [op |-> op, a |-> <<>>, out |-> [panic |-> w2.panic, val |-> {}]]
       /\ IF w2.panic = NoPanic
          THEN /\ stream' = stream \o Selected(width, leftPadd, bits, data)
               /\ blocks' = BlocksAfter(width, leftPadd, bits, data)
          ELSE UNCHANGED <<stream, blocks>>
       /\ UNCHANGED <<size, wpos, r, rpos, arg, mu, pc, call, todo, acc, origin, readers>>

Write8Call ==
    \E a \in BlockArgs(8), data \in Sources(8) : BlockWrite("Write8", 8, a[1], a[2], data)

Write16Call ==
    \E a \in BlockArgs(16), data \in Sources(16) : BlockWrite("Write16", 16, a[1], a[2], data)

Write32Call ==
    \E a \in BlockArgs(32), data \in Sources(32) : BlockWrite("Write32", 32, a[1], a[2], data)

Write64Call ==
    \E a \in BlockArgs(64), data \in Sources(64) : BlockWrite("Write64", 64, a[1], a[2], data)

WriteBoolCall ==
    \E b \in BOOLEAN :
        LET w2 == WriteBool(w, b)
        IN /\ Idle
           /\ w.bits + 1 <= MaxBits
           /\ w' = [w2 EXCEPT !.panic = NoPanic]
           /\ ret' = [op |-> "WriteBool", a |-> <<>>, out |-> [panic |-> w2.panic, val |-> {}]]
           /\ stream' = IF w2.panic = NoPanic THEN Append(stream, b) ELSE stream
           /\ blocks' = [k |-> -2, vals |-> <<>>]
           /\ UNCHANGED <<size, wpos, r, rpos, arg, mu, pc, call, todo, acc, origin, readers>>

Getter(op, val) ==
    /\ Idle
    /\ ret' = [op |-> op, a |-> <<>>, out |-> [panic |-> NoPanic, val |-> val]]
    /\ UNCHANGED <<size, w, wpos, r, rpos, arg, stream, blocks, mu, pc, call, todo, acc, origin, readers>>

DataCall == Getter("Data", Data(w))

AnyDataCall == Getter("AnyData", AnyData(w))

BitsCall == Getter("Bits", Bits(w))

NextAppend ==
    \/ Write8Call
    \/ Write16Call
    \/ Write32Call
    \/ Write64Call
    \/ WriteBoolCall
    \/ DataCall
    \/ AnyDataCall
    \/ BitsCall
    \/ Return

SpecAppend == InitWriter /\ [][NextAppend]_vars

\* the logical bit stream of the writer's buffer, bits 0 .. n-1
LogicalStream(n) == [i \in 1 .. n |-> LogicalBit(w.data, i - 1, size, w.lp, w.s)]

\* C1: after block writes of one bit count k, each of the low k bits of its
\* value v_i (leftPadd = width - k), a BitReader over Data() with the writer's
\* padding returns the low k bits of v_i from ReadNR(k, i), for every i < m
\* and every result width N >= k.
C1_RoundTrip ==
    blocks.k >= 0 =>
        LET rd == NewBitReader(size, Data(w), w.lp, w.rp)
        IN \A i \in 1 .. Len(blocks.vals) :
               \A width \in {x \in WordSizes : blocks.k <= x} :
                   ReadNR(rd, width, blocks.k, i - 1) =
                       [panic |-> NoPanic, val |-> blocks.vals[i]]

\* C1 witness: three values of 3 bits, not all equal and one neither 000 nor
\* 111, written into a padded buffer that they fill into its second word
C1_Witness ==
    /\ blocks.k = 3
    /\ Len(blocks.vals) >= 2
    /\ blocks.vals[1] # blocks.vals[2]
    /\ \E i \in 1 .. Len(blocks.vals) : blocks.vals[i] \notin {{}, {0, 1, 2}}
    /\ w.lp > 0
    /\ w.rp > 0
    /\ Len(w.data) >= 2

\* C2: after any sequence of append calls the logical bit stream of the buffer
\* is the concatenation, in call order, of the bits each call selected, and
\* Bits() is the sum of the calls' bit counts (so no append changes a bit
\* below the previous Bits()).
C2_AppendConcatenates ==
    /\ Bits(w) = Len(stream)
    /\ Len(w.data) * w.s >= Len(stream)
    /\ LogicalStream(Len(stream)) = stream

\* C2 witness: at least 6 bits appended, ones and zeros, over two words of a
\* padded buffer, the last by WriteBool
C2_Witness ==
    /\ ret.op = "WriteBool"
    /\ Len(stream) >= 6
    /\ \E i, j \in 1 .. Len(stream) : stream[i] /\ ~stream[j]
    /\ Len(w.data) >= 2
    /\ w.lp > 0

-----------------------------------------------------------------------------
(* The cursor calls of the writer (modelled from the specification) *)

\* logical bit i of the writer's buffer; a bit the buffer does not hold is 0
WriterBit(wr, i) ==
    i \div wr.s < Len(wr.data) /\ LogicalBit(wr.data, i, size, wr.lp, wr.s)

\* the history of the stream after bit pos is written and the count is n:
\* zero bits where none was written
StreamWith(pos, bit, n) ==
    [i \in 1 .. n |->
        IF i = pos + 1 THEN bit ELSE IF i <= Len(stream) THEN stream[i] ELSE FALSE]

WriteBitCall ==
    \E bit \in BOOLEAN, n \in writeBitAtCounts(w, wpos) :
        /\ Idle
        /\ wpos <= MaxPos
        /\ w' = writeBitAt(w, wpos, bit, n)
        /\ wpos' = wpos + 1
        /\ ret' = CursorResult("WriteBit", <<wpos, bit>>, NoError)
        /\ stream' = StreamWith(wpos, bit, n)
        /\ blocks' = [k |-> -2, vals |-> <<>>]
        /\ UNCHANGED <<size, r, rpos, arg, mu, pc, call, todo, acc, origin, readers>>

\* the result records pos, bit and the bit that was at pos before
WriteBitAtCall ==
    \E pos \in -1 .. MaxPos, bit \in BOOLEAN :
        /\ Idle
        /\ IF pos < 0
           THEN /\ ret' = CursorResult("WriteBitAt", <<pos, bit, FALSE>>, ErrNegativePosition)
                /\ UNCHANGED <<w, stream, blocks>>
           ELSE \E n \in writeBitAtCounts(w, pos) :
                    /\ ret' = CursorResult("WriteBitAt", <<pos, bit, WriterBit(w, pos)>>, NoError)
                    /\ w' = writeBitAt(w, pos, bit, n)
                    /\ stream' = StreamWith(pos, bit, n)
                    /\ blocks' = [k |-> -2, vals |-> <<>>]
        /\ UNCHANGED <<size, wpos, r, rpos, arg, mu, pc, call, todo, acc, origin, readers>>

SeekCall ==
    \E pos \in -1 .. MaxPos + 1 :
        /\ Idle
        /\ IF pos < 0
           THEN /\ ret' = CursorResult("Seek", <<pos>>, ErrNegativePosition)
                /\ UNCHANGED wpos
           ELSE /\ ret' = CursorResult("Seek", <<pos>>, NoError)
                /\ wpos' = pos
        /\ UNCHANGED <<size, w, r, rpos, arg, stream, blocks, mu, pc, call, todo, acc, origin, readers>>

PosCall == Getter("Pos", wpos)

Next == NextAppend \/ WriteBitCall \/ WriteBitAtCall \/ SeekCall \/ PosCall

Spec == InitWriter /\ [][Next]_vars

-----------------------------------------------------------------------------
(* SpecSeek: an instance of either kind, a BitReader or a BitWriter, and   *)
(* the calls that move, use or report its cursor.                          *)

InitSeek == InitReader \/ InitWriter

IsReader == r.s > 0

IsWriter == w.s > 0

\* the cursor of the instance
Cursor == IF IsReader THEN rpos ELSE wpos

NextSeek ==
    \/ IsReader /\ ReadBitCall
    \/ IsReader /\ ReadBitAtCall
    \/ IsReader /\ ReaderSeekCall
    \/ IsReader /\ ReaderPosCall
    \/ IsReader /\ SetBitsLimitCall
    \/ IsWriter /\ WriteBoolCall
    \/ IsWriter /\ WriteBitCall
    \/ IsWriter /\ WriteBitAtCall
    \/ IsWriter /\ SeekCall
    \/ IsWriter /\ PosCall
    \/ IsWriter /\ BitsCall
    \/ IsWriter /\ DataCall
    \/ Return

SpecSeek == InitSeek /\ [][NextSeek]_vars

\* C15: on a reader or a writer Seek(pos) with any pos >= 0 succeeds and Pos()
\* is then exactly pos, also when pos is at or beyond the bit count; a ReadBit
\* after a Seek to pos >= bit count returns io.EOF and leaves Pos() at pos.
\* Pos() is 0 on a new instance.
C15_PermissiveSeek ==
    /\ Cursor = 0
    /\ [](/\ (ret.op = "Seek" /\ ret.a[1] >= 0) =>
                 (ret.out.val = NoError /\ Cursor = ret.a[1])
          /\ ret.op = "Pos" => ret.out.val = Cursor
          /\ (IsReader /\ ret.op = "ReadBit" /\ ret.a[1] = origin /\ origin >= r.bits) =>
                 (ret.out.val.err = EOF /\ rpos = origin))
    /\ [][(ret.op = "none" /\ ret'.op = "Pos") => Cursor' = Cursor]_vars

\* C15 witness: a reader with bits to read, its cursor put beyond the end by
\* Seek, whose ReadBit returned io.EOF
C15_Witness ==
    /\ IsReader
    /\ ret.op = "ReadBit"
    /\ ret.out.val.err = EOF
    /\ r.bits > 1
    /\ origin > r.bits
    /\ rpos = origin

\* C16: Seek(pos) with pos < 0 returns ErrNegativePosition and leaves Pos(),
\* the bit count and the buffer as they were, in every reachable state, also
\* with the cursor beyond the end.
C16_NegativeSeek ==
    /\ []((ret.op = "Seek" /\ ret.a[1] < 0) => ret.out.val = ErrNegativePosition)
    /\ [][(ret.op = "none" /\ ret'.op = "Seek" /\ ret'.a[1] < 0) =>
             (rpos' = rpos /\ wpos' = wpos /\ r' = r /\ w' = w)]_vars

\* C16 witness: Seek(-1) rejected on a reader whose cursor is beyond the end of
\* a stream with bits
C16_Witness ==
    /\ IsReader
    /\ ret.op = "Seek"
    /\ ret.a[1] = -1
    /\ ret.out.val = ErrNegativePosition
    /\ r.bits > 0
    /\ rpos > r.bits

\* the writer's stream after a write of bit at pos: bit at pos, every other
\* position as it was
OnlyBitChanged(pos, bit) ==
    /\ WriterBit(w', pos) = bit
    /\ \A i \in 0 .. Max(Len(w.data), Len(w'.data)) * w.s - 1 :
           i # pos => WriterBit(w', i) = WriterBit(w, i)
    /\ \A k \in 1 .. Len(w'.data) : w'.data[k] \cap PaddingBits = {}

\* C18: WriteBit(bit) writes bit at the cursor p, so that logical bit p of the
\* buffer is bit afterwards, grows the buffer with zero words when p is at or
\* beyond the end, changes no other logical bit and moves the cursor to p + 1.
C18_WriteBit ==
    [][(ret.op = "none" /\ ret'.op = "WriteBit") =>
          /\ ret'.a = <<wpos, WriterBit(w', wpos)>>
          /\ ret'.out.val = NoError
          /\ OnlyBitChanged(wpos, ret'.a[2])
          /\ Len(w'.data) = Max(Len(w.data), wpos \div w.s + 1)
          /\ wpos' = wpos + 1]_vars

\* C18 witness: WriteBit at a cursor put beyond the end wrote a 1 into a new
\* word of a padded buffer whose first bit is 1 and the rest 0
C18_Witness ==
    /\ ret.op = "WriteBit"
    /\ ret.a = <<MaxPos, TRUE>>
    /\ wpos = MaxPos + 1
    /\ w.bits = MaxPos + 1
    /\ w.lp > 0
    /\ Len(w.data) >= 2
    /\ stream = [i \in 1 .. MaxPos + 1 |-> i \in {1, MaxPos + 1}]

\* C19: WriteBitAt(pos, bit) with pos >= 0 makes logical bit pos equal to bit,
\* clearing a 1 and setting a 0 alike, without moving the cursor or changing
\* another logical bit, and grows the buffer when pos is beyond it; with
\* pos < 0 it returns ErrNegativePosition and leaves buffer, bit count and
\* cursor as they were.
C19_WriteBitAt ==
    [][(ret.op = "none" /\ ret'.op = "WriteBitAt") =>
          LET pos == ret'.a[1]
              bit == ret'.a[2]
          IN /\ wpos' = wpos
             /\ IF pos < 0
                THEN ret'.out.val = ErrNegativePosition /\ w' = w
                ELSE /\ ret'.out.val = NoError
                     /\ OnlyBitChanged(pos, bit)
                     /\ Len(w'.data) = Max(Len(w.data), pos \div w.s + 1)]_vars

\* C19 witness: WriteBitAt cleared a 1 in the middle of the written bits of a
\* padded buffer, the cursor elsewhere
C19_Witness ==
    /\ ret.op = "WriteBitAt"
    /\ ret.a = <<1, FALSE, TRUE>>
    /\ ~WriterBit(w, 1)
    /\ WriterBit(w, 0)
    /\ WriterBit(w, 2)
    /\ w.bits >= 3
    /\ wpos = 3
    /\ w.lp > 0

AppendOps == {"Write8", "Write16", "Write32", "Write64", "WriteBool"}

\* a call of the writer returns
WriterStep == ret.op = "none" /\ ret'.op # "none"

-----------------------------------------------------------------------------
(* SpecCount: a BitWriter, the calls that append through write, the calls   *)
(* that report, and Seek and Pos.  WriteBit and WriteBitAt are left out:    *)
(* their code is not among the sources and the specification does not fix   *)
(* the count they leave (see writeBitAtCounts).                             *)

NextCount == NextAppend \/ SeekCall \/ PosCall

SpecCount == InitWriter /\ [][NextCount]_vars

-----------------------------------------------------------------------------
(* SpecBlocks: a BitReader or a BitWriter, its block calls and Seek, the     *)
(* call that puts its cursor anywhere.                                       *)

NextBlocks ==
    \/ IsReader /\ Read8RCall
    \/ IsReader /\ Read16RCall
    \/ IsReader /\ Read32RCall
    \/ IsReader /\ Read64RCall
    \/ IsReader /\ ReaderSeekCall
    \/ IsWriter /\ Write8Call
    \/ IsWriter /\ Write16Call
    \/ IsWriter /\ Write32Call
    \/ IsWriter /\ Write64Call
    \/ IsWriter /\ WriteBoolCall
    \/ IsWriter /\ SeekCall
    \/ Return

SpecBlocks == InitSeek /\ [][NextBlocks]_vars

\* the width of the result of the block read that returns in this step
ReadWidthNext ==
    CASE ret'.op = "Read8R"  -> 8
      [] ret'.op = "Read16R" -> 16
      [] ret'.op = "Read32R" -> 32
      [] ret'.op = "Read64R" -> 64

\* C26: a block read returns what it returns on a reader whose cursor was
\* never moved and leaves the cursor where it is; a block write or WriteBool
\* appends its bits at the logical end, index Bits(), whatever the cursor,
\* changes no bit before the end and leaves the cursor - also after a Seek to
\* a position before or beyond the end; a block write that panics changes
\* nothing.
C26_BlocksIgnoreCursor ==
    /\ [][(ret.op = "none" /\ ret'.op \in {"Read8R", "Read16R", "Read32R", "Read64R"}) =>
             /\ rpos' = rpos
             /\ ret'.out = ReadNR(NewBitReader(size, arg.data, arg.leftPadd, arg.rightPadd),
                                  ReadWidthNext, ret'.a[1], ret'.a[2])]_vars
    /\ [][(ret.op = "none" /\ ret'.op \in AppendOps) =>
             LET k == Len(stream') - Len(stream)
             IN /\ wpos' = wpos
                /\ w'.bits = w.bits + k
                /\ \A i \in 0 .. w.bits - 1 : WriterBit(w', i) = WriterBit(w, i)
                /\ \A j \in 1 .. k : WriterBit(w', w.bits + j - 1) = stream'[Len(stream) + j]
                /\ ret'.out.panic # NoPanic => w' = w]_vars

\* C26 witness: with the cursor put back at 1, where the stream holds a 0, a
\* block write appended ones at the end of a padded buffer: bit 1 is still 0
\* and the cursor still 1
C26_Witness ==
    /\ ret.op \in {"Write8", "Write16", "Write32", "Write64"}
    /\ ret.out.panic = NoPanic
    /\ wpos = 1
    /\ w.bits >= 5
    /\ ~WriterBit(w, 1)
    /\ WriterBit(w, w.bits - 1)
    /\ WriterBit(w, w.bits - 2)
    /\ w.lp > 0

\* the least number of s-bit spans that hold n bits
CeilDiv(n, s) == (n + s - 1) \div s

\* a WriteBool call that returned: one append
AppendStep == ret.op = "none" /\ ret'.op = "WriteBool" /\ ret'.out.panic = NoPanic

C27_UnwrittenTailZero ==
    /\ \A i \in w.bits .. Len(w.data) * w.s - 1 : ~LogicalBit(w.data, i, size, w.lp, w.s)
    /\ LET rd == NewBitReader(size, Data(w), w.lp, w.rp)
       IN \A i \in Bits(w) .. rd.bits :
              Read8R(rd, 1, i) = [panic |-> NoPanic, val |-> {}]

\* C27 witness: a padded buffer of two words or more whose last word is partly
\* written, the last bit written a 1, with two positions or more left in it
C27_Witness ==
    /\ ret.op \in AppendOps
    /\ Len(w.data) >= 2
    /\ w.lp > 0
    /\ w.rp > 0
    /\ Len(w.data) * w.s - w.bits >= 2
    /\ w.bits > (Len(w.data) - 1) * w.s
    /\ LogicalBit(w.data, w.bits - 1, size, w.lp, w.s)

\* C28: for a writer in any reachable state, with logical bit count b, a
\* BitReader newly constructed over Data() with the writer's paddings has
\* Bits() = len(Data()) * s = ceil(b / s) * s, so 0 <= Bits() - b <= s - 1, the
\* two counts being equal exactly when b is a multiple of s; unless they are
\* equal, reading the bit at position b gives a 0 and no io.EOF, and gives
\* io.EOF once SetBits(b) is called.
C28_ExportedLength ==
    LET rd == NewBitReader(size, Data(w), w.lp, w.rp)
        b == Bits(w)
    IN /\ rd.panic = NoPanic
       /\ rd.bits = Len(Data(w)) * w.s
       /\ rd.bits = CeilDiv(b, w.s) * w.s
       /\ 0 <= rd.bits - b
       /\ rd.bits - b <= w.s - 1
       /\ rd.bits = b <=> b % w.s = 0
       /\ readBitAt(rd, b) = IF b % w.s = 0
                             THEN [bit |-> FALSE, err |-> EOF]
                             ELSE [bit |-> FALSE, err |-> NoError]
       /\ readBitAt(SetBits(rd, b), b) = [bit |-> FALSE, err |-> EOF]

\* C28 witness: a padded writer whose second word holds one bit only, a 1: the
\* reader over Data() counts s - 1 bits more than the writer
C28_Witness ==
    /\ ret.op \in AppendOps
    /\ w.lp > 0
    /\ w.rp > 0
    /\ Bits(w) = w.s + 1
    /\ Len(Data(w)) = 2
    /\ NewBitReader(size, Data(w), w.lp, w.rp).bits = Bits(w) + w.s - 1
    /\ LogicalBit(w.data, w.s, size, w.lp, w.s)

\* C9: in every reachable state of the writer the lp most significant and the
\* rp least significant bits of every word of the buffer are 0, whatever was
\* written.
C9_PaddingIsolation ==
    \A i \in 1 .. Len(w.data) : w.data[i] \cap PaddingBits = {}

\* C9 witness: W = 8, lp = 1, rp = 0 and Write8(0, 8, 0xFF): the words are
\* 0b01111111 and 0b01000000, and Bits() = 8
C9_Witness ==
    /\ size = 8
    /\ w.lp = 1
    /\ w.rp = 0
    /\ ret.op = "Write8"
    /\ w.data = <<Word(127), Word(64)>>
    /\ Bits(w) = 8

-----------------------------------------------------------------------------
(* SpecConc: NProcs callers, each making one call on a shared BitWriter.    *)
(* A step is one statement of the code: the argument check, mu.Lock(), the  *)
(* three statements of write, the deferred mu.Unlock().  The callers are    *)
(* interchangeable, so their calls are taken in one order only.             *)

Procs == 1 .. NProcs

\* paddings of the shared writer: spans of 2 and of 7 bits
ConcPaddings == {<<3, 3>>, <<1, 0>>}

Call(op, leftPadd, bits, data) == [op |-> op, leftPadd |-> leftPadd, bits |-> bits, data |-> data]

\* the calls a caller makes, in the order callers are listed; WriteBool(b)
\* carries b as the bit of a 1-bit source; of each block write one call passes
\* the argument check and one fails it
ConcCallSeq ==
    <<Call("WriteBool", 0, 1, {0}), Call("WriteBool", 0, 1, {}),
      Call("Write8", 6, 2, {1}), Call("Write8", 7, 2, {1}),
      Call("Write16", 14, 2, {1}), Call("Write16", 0, 17, {1}),
      Call("Write32", 31, 1, {0}), Call("Write32", 32, 1, {0}),
      Call("Write64", 63, 1, {0}), Call("Write64", 62, 3, {0}),
      Call("Data", 0, 0, {}), Call("AnyData", 0, 0, {}), Call("Bits", 0, 0, {})>>

ConcCalls == {ConcCallSeq[k] : k \in 1 .. Len(ConcCallSeq)}

IsBlockWrite(c) == c.op \in {"Write8", "Write16", "Write32", "Write64"}

WidthOf(c) ==
    CASE c.op = "Write8"  -> 8
      [] c.op = "Write16" -> 16
      [] c.op = "Write32" -> 32
      [] c.op = "Write64" -> 64
      [] OTHER -> 1

\* the bit the caller's next call of write appends
BitOf(c, i) == (WidthOf(c) - 1 - i) \in c.data

\* the loop condition of a block write; WriteBool calls write once
LoopPc(c, i) == IF i < c.leftPadd + c.bits THEN "write" ELSE "unlock"

InitConc ==
    /\ size = 8
    /\ \E p \in ConcPaddings :
           /\ arg = [leftPadd |-> p[1], rightPadd |-> p[2], data |-> <<>>]
           /\ w = NewBitWriter(size, p[1], p[2])
    /\ wpos = 0
    /\ stream = <<>>
    /\ blocks = [k |-> -1, vals |-> <<>>]
    /\ ret = NoRet
    /\ IdleReader
    /\ mu = 0
    /\ \E f \in [Procs -> 1 .. Len(ConcCallSeq)] :
           /\ \A p, q \in Procs : p < q => f[p] <= f[q]
           /\ call = [p \in Procs |-> ConcCallSeq[f[p]]]
    /\ pc = [p \in Procs |-> "call"]
    /\ todo = [p \in Procs |-> [i |-> 0, idx |-> 0]]
    /\ acc = {}

\* the argument check made after mu.Lock(), its panic leaving the mutex held
ArgPanic_held(p) ==
    /\ pc[p] = "call"
    /\ IsBlockWrite(call[p])
    /\ call[p].leftPadd + call[p].bits > WidthOf(call[p])
    /\ mu = 0
    /\ mu' = p
    /\ pc' = [pc EXCEPT ![p] = "panicked"]
    /\ UNCHANGED <<size, w, wpos, r, rpos, ret, arg, stream, blocks, call, todo, acc, origin, readers>>

\* the argument check of a block write fails: the panic leaves the call before
\* mu.Lock()
ArgPanic(p) ==
    /\ pc[p] = "call"
    /\ IsBlockWrite(call[p])
    /\ call[p].leftPadd + call[p].bits > WidthOf(call[p])
    /\ pc' = [pc EXCEPT ![p] = "panicked"]
    /\ UNCHANGED <<size, w, wpos, r, rpos, ret, arg, stream, blocks, mu, call, todo, acc, origin, readers>>

\* mu.Lock() that does not wait for the mutex
Lock_nowait(p) ==
    /\ pc[p] = "call"
    /\ call[p].op # "Bits"
    /\ IsBlockWrite(call[p]) => call[p].leftPadd + call[p].bits <= WidthOf(call[p])
    /\ mu' = p
    /\ todo' = [todo EXCEPT ![p].i = call[p].leftPadd]
    /\ pc' = [pc EXCEPT ![p] = IF call[p].op \in {"Data", "AnyData"}
                                THEN "unlock"
                                ELSE LoopPc(call[p], call[p].leftPadd)]
    /\ UNCHANGED <<size, w, wpos, r, rpos, ret, arg, stream, blocks, call, acc, origin, readers>>

\* mu.Lock() of a call that passed its argument check; defer mu.Unlock()
Lock(p) ==
    /\ pc[p] = "call"
    /\ call[p].op # "Bits"
    /\ IsBlockWrite(call[p]) => call[p].leftPadd + call[p].bits <= WidthOf(call[p])
    /\ mu = 0
    /\ mu' = p
    /\ todo' = [todo EXCEPT ![p].i = call[p].leftPadd]
    /\ pc' = [pc EXCEPT ![p] = IF call[p].op \in {"Data", "AnyData"}
                                THEN "unlock"
                                ELSE LoopPc(call[p], call[p].leftPadd)]
    /\ UNCHANGED <<size, w, wpos, r, rpos, ret, arg, stream, blocks, call, acc, origin, readers>>

\* write, lines 313-316
WriteGrow(p) ==
    /\ pc[p] = "write"
    /\ todo' = [todo EXCEPT ![p].idx = GoDiv(w.bits, w.s)]
    /\ w' = writeGrow(w)
    /\ pc' = [pc EXCEPT ![p] = "set"]
    /\ UNCHANGED <<size, wpos, r, rpos, ret, arg, stream, blocks, mu, call, acc, origin, readers>>

\* write, lines 317-319
WriteSet(p) ==
    /\ pc[p] = "set"
    /\ w' = writeSet(w, todo[p].idx, BitOf(call[p], todo[p].i))
    /\ pc' = [pc EXCEPT ![p] = "count"]
    /\ UNCHANGED <<size, wpos, r, rpos, ret, arg, stream, blocks, mu, call, todo, acc, origin, readers>>

\* write, line 320, and the loop's i++ and condition
WriteCount(p) ==
    /\ pc[p] = "count"
    /\ w' = writeCount(w)
    /\ todo' = [todo EXCEPT ![p] = [i |-> @.i + 1, idx |-> 0]]
    /\ pc' = [pc EXCEPT ![p] = LoopPc(call[p], todo[p].i + 1)]
    /\ UNCHANGED <<size, wpos, r, rpos, ret, arg, stream, blocks, mu, call, acc, origin, readers>>

\* the return of a call without the deferred mu.Unlock()
Unlock_keep(p) ==
    /\ pc[p] = "unlock"
    /\ todo' = [todo EXCEPT ![p] = [i |-> 0, idx |-> 0]]
    /\ pc' = [pc EXCEPT ![p] = "done"]
    /\ UNCHANGED <<size, w, wpos, r, rpos, ret, arg, stream, blocks, mu, call, acc, origin, readers>>

\* the return of a call that holds the mutex: the deferred mu.Unlock()
Unlock(p) ==
    /\ pc[p] = "unlock"
    /\ mu' = 0
    /\ todo' = [todo EXCEPT ![p] = [i |-> 0, idx |-> 0]]
    /\ pc' = [pc EXCEPT ![p] = "done"]
    /\ UNCHANGED <<size, w, wpos, r, rpos, ret, arg, stream, blocks, call, acc, origin, readers>>

\* Bits(): r.bits is read and returned, the mutex not taken.  The access is
\* recorded with the call that holds the mutex at that moment.
BitsRead(p) ==
    /\ pc[p] = "call"
    /\ call[p].op = "Bits"
    /\ acc' = acc \cup {[op |-> "Bits", during |-> IF mu = 0 THEN "none" ELSE call[mu].op,
                         at |-> IF mu = 0 THEN "none" ELSE pc[mu]]}
    /\ pc' = [pc EXCEPT ![p] = "done"]
    /\ UNCHANGED <<size, w, wpos, r, rpos, ret, arg, stream, blocks, mu, call, todo, origin, readers>>

NextConc ==
    \E p \in Procs :
        \/ ArgPanic(p)
        \/ Lock(p)
        \/ WriteGrow(p)
        \/ WriteSet(p)
        \/ WriteCount(p)
        \/ Unlock(p)
        \/ BitsRead(p)

SpecConc == InitConc /\ [][NextConc]_vars

AllWriteBool == \A p \in Procs : call[p].op = "WriteBool"

AllReturned == \A p \in Procs : pc[p] \in {"done", "panicked"}

\* the bit positions of word k (from 1) that hold the logical bits 0 .. n-1
WrittenBits(k, n) ==
    {size - w.lp - 1 - (i % w.s) : i \in {j \in 0 .. n - 1 : j \div w.s = k - 1}}

\* C5: when the N callers each call WriteBool once on the shared writer then,
\* in every interleaving, once all calls have returned Bits() = N,
\* len(Data()) = ceil(N / s), the 1 bits among the logical positions 0 .. N-1
\* are as many as the callers that wrote true, and every other bit of every
\* word is 0.
C5_ConcurrentWriteBool ==
    (AllWriteBool /\ AllReturned) =>
        /\ Bits(w) = NProcs
        /\ Len(Data(w)) = CeilDiv(NProcs, w.s)
        /\ Cardinality({i \in 0 .. NProcs - 1 : LogicalBit(w.data, i, size, w.lp, w.s)})
               = Cardinality({p \in Procs : call[p].data # {}})
        /\ \A k \in 1 .. Len(w.data) : w.data[k] \subseteq WrittenBits(k, NProcs)

\* C5 witness: all callers called WriteBool and returned, some wrote 1 and
\* some 0, and their bits spread over two words of a padded buffer
C5_Witness ==
    /\ AllWriteBool
    /\ AllReturned
    /\ \E p, q \in Procs : call[p].data # {} /\ call[q].data = {}
    /\ Len(w.data) >= 2
    /\ w.lp > 0
    /\ mu = 0

\* C6: every operation of the writer that reads or changes the buffer, the
\* bit count or the cursor does so holding the mutex, Bits among them: no
\* caller reads the bit count or the buffer without the mutex, so none reads
\* it while another caller is in the middle of a write.
C6_AccessUnderMutex == acc = {}

\* the argument check of caller p's block write fails
ExceedsSource(p) ==
    IsBlockWrite(call[p]) /\ call[p].leftPadd + call[p].bits > WidthOf(call[p])

\* C12: a block write with leftPadd + bits above the width of its source
\* (8, 16, 32, 64) panics; it appends no bit - buffer, bit count and cursor
\* are as before - and does not hold the mutex afterwards: the mutex is only
\* ever held by a call that is running, so the other callers proceed.
C12_WritePanics ==
    /\ [](\A p \in Procs :
             /\ ExceedsSource(p) => pc[p] \in {"call", "panicked"}
             /\ pc[p] = "panicked" => ExceedsSource(p)
             /\ pc[p] \in {"call", "panicked", "done"} => mu # p)
    /\ [](mu # 0 => pc[mu] \in {"write", "set", "count", "unlock"})
    /\ [][\A p \in Procs :
             (pc[p] = "call" /\ pc'[p] = "panicked") =>
                 (w' = w /\ wpos' = wpos /\ mu' = mu)]_vars

\* C12 witness: one caller's block write panicked while another caller held
\* the mutex in the middle of its write, and a third call on the padded
\* buffer took and released the mutex
C12_Witness ==
    \E p, q, o \in Procs :
        /\ pc[p] = "panicked"
        /\ call[p].op = "Write16"
        /\ pc[q] = "count"
        /\ mu = q
        /\ pc[o] = "done"
        /\ call[o].op = "WriteBool"
        /\ w.bits >= 1

\* the steps of caller p
CallerStep(p) ==
    \/ ArgPanic(p)
    \/ Lock(p)
    \/ WriteGrow(p)
    \/ WriteSet(p)
    \/ WriteCount(p)
    \/ Unlock(p)
    \/ BitsRead(p)

\* SpecConc under fair scheduling: a caller that can take a step is not
\* passed over for ever
FairSpecConc == SpecConc /\ \A p \in Procs : WF_vars(CallerStep(p))

\* C21: in every interleaving of calls on the shared writer, calls that fail
\* their argument check included, a caller about to take the mutex does not
\* hold it, a call that returned or panicked does not hold it, as long as a
\* call has not returned some caller can take a step (no deadlock), and under
\* fair scheduling all calls eventually return, the mutex then being free.
C21_DeadlockFree ==
    /\ [](\A p \in Procs : pc[p] \in {"call", "done", "panicked"} => mu # p)
    /\ [](~AllReturned => ENABLED NextConc)
    /\ [](AllReturned => mu = 0)
    /\ <>AllReturned

\* C21 witness: all calls returned, one after failing its argument check, one
\* a block write that appended its bits and one an export; the mutex is free
C21_Witness ==
    /\ AllReturned
    /\ mu = 0
    /\ \E p, q, o \in Procs :
           /\ pc[p] = "panicked"
           /\ pc[q] = "done" /\ IsBlockWrite(call[q]) /\ w.bits >= call[q].bits
           /\ pc[o] = "done" /\ call[o].op \in {"Data", "AnyData"}
    /\ w.bits >= 1

\* the calls that append bits
Appends(p) == call[p].op = "WriteBool" \/ IsBlockWrite(call[p])

\* the bits caller p's call has appended so far: all the bits it selects once
\* it returned, the first of them while it is in its loop
AppendedBy(p) ==
    LET c == call[p]
        whole == Selected(WidthOf(c), c.leftPadd, c.bits, c.data)
    IN IF ~Appends(p) \/ pc[p] \in {"call", "panicked"}
       THEN <<>>
       ELSE IF pc[p] = "done"
       THEN whole
       ELSE SubSeq(whole, 1, todo[p].i - c.leftPadd)

\* the orders the callers can be put in
CallOrders == {f \in [Procs -> Procs] : \A p, q \in Procs : f[p] = f[q] => p = q}

RECURSIVE InOrder(_, _)
InOrder(f, n) == IF n = 0 THEN <<>> ELSE InOrder(f, n - 1) \o AppendedBy(f[n])

\* C23: when callers write blocks on the shared writer at the same time, the
\* bits of each call are one run of consecutive logical positions, not mixed
\* with those of another call: at every moment, and so when all calls have
\* returned, the logical stream is the bit strings of the calls one after the
\* other in some order of the calls, and Bits() is the sum of their bit counts.
C23_BlockWriteAtomic ==
    /\ \E f \in CallOrders : LogicalStream(w.bits) = InOrder(f, NProcs)
    /\ AllReturned =>
           /\ \A p \in Procs : (Appends(p) /\ pc[p] = "done") => Len(AppendedBy(p)) = call[p].bits
           /\ \E f \in CallOrders :
                  /\ Len(InOrder(f, NProcs)) = Bits(w)
                  /\ \A i \in 1 .. Bits(w) :
                         InOrder(f, NProcs)[i] = LogicalBit(Data(w), i - 1, size, w.lp, w.s)

\* C23 witness: all calls are block writes that returned, two of 2 bits among
\* them, and the stream begins with the 1 bit of the call listed last, then
\* holds the bits 10 of an earlier one
C23_Witness ==
    /\ AllReturned
    /\ \A p \in Procs : IsBlockWrite(call[p]) /\ pc[p] = "done"
    /\ \E p, q \in Procs : p # q /\ call[p].bits = 2 /\ call[q].bits = 2
    /\ call[NProcs].bits = 1
    /\ Bits(w) >= 5
    /\ LogicalBit(w.data, 0, size, w.lp, w.s)
    /\ LogicalBit(w.data, 1, size, w.lp, w.s)
    /\ ~LogicalBit(w.data, 2, size, w.lp, w.s)
    /\ Len(w.data) >= 2

-----------------------------------------------------------------------------
(* SpecShare: two BitReaders constructed over one buffer, arg.data, each     *)
(* with its own paddings, bit count and cursor.  The data field of a reader  *)
(* is a slice of the buffer: a call sees the words the buffer holds when it  *)
(* is made, and whatever the call does to the words of its slice is done to  *)
(* the buffer.  Next to every reader goes its copy run alone: the same calls *)
(* made on a reader that has a buffer of its own.                            *)

ReaderIds == {1, 2}

\* the shared buffers: one word, or more words that differ
ShareBuffers ==
    {b \in {<<Word(172)>>, <<Word(172), Word(227)>>, <<Word(227), Word(172), Word(255)>>} :
        Len(b) <= MaxWords}

SharePaddings == {<<0, 0>>, <<1, 2>>}

\* a call on a reader: a block read (its result width in width), SetBits(n),
\* ReadBitAt(n), Seek(n), or a call without arguments
ReaderCallOf(op, width, bits, n) == [op |-> op, width |-> width, bits |-> bits, n |-> n]

\* one call on the reader st.rd with cursor st.pos: the reader and the cursor
\* after it, and what it returned
ReaderCall(st, c) ==
    CASE c.op \in {"Read8R", "Read16R", "Read32R", "Read64R"} ->
             LET got == ReadNR(st.rd, c.width, c.bits, c.n)
             IN [rd |-> st.rd, pos |-> st.pos, out |-> got]
      [] c.op = "SetBits" ->
             [rd |-> SetBits(st.rd, c.n), pos |-> st.pos,
              out |-> [panic |-> NoPanic, val |-> {}]]
      [] c.op = "Bits" ->
             [rd |-> st.rd, pos |-> st.pos, out |-> [panic |-> NoPanic, val |-> st.rd.bits]]
      [] c.op = "Data" ->
             [rd |-> st.rd, pos |-> st.pos, out |-> [panic |-> NoPanic, val |-> st.rd.data]]
      [] c.op = "ReadBit" ->
             LET got == readBitAt(st.rd, st.pos)
             IN [rd |-> st.rd,
                 pos |-> IF got.err = NoError THEN st.pos + 1 ELSE st.pos,
                 out |-> [panic |-> NoPanic, val |-> got]]
      [] c.op = "ReadBitAt" ->
             [rd |-> st.rd, pos |-> st.pos,
              out |-> [panic |-> NoPanic, val |-> readBitAt(st.rd, c.n)]]
      [] c.op = "Seek" ->
             [rd |-> st.rd,
              pos |-> IF c.n < 0 THEN st.pos ELSE c.n,
              out |-> [panic |-> NoPanic,
                       val |-> IF c.n < 0 THEN ErrNegativePosition ELSE NoError]]
      [] c.op = "Pos" ->
             [rd |-> st.rd, pos |-> st.pos, out |-> [panic |-> NoPanic, val |-> st.pos]]

\* reader k as the calls see it: its slice is a view of the shared buffer
View(k) == [rd |-> [readers[k].rd EXCEPT !.data = arg.data], pos |-> readers[k].pos]

InitShare ==
    /\ size = 8
    /\ \E data \in ShareBuffers :
           /\ arg = [leftPadd |-> 0, rightPadd |-> 0, data |-> data]
           /\ \E p1, p2 \in SharePaddings :
                  LET new(p) == [rd |-> NewBitReader(size, data, p[1], p[2]), pos |-> 0]
                  IN readers = <<[rd |-> new(p1).rd, pos |-> 0, alone |-> new(p1)],
                                 [rd |-> new(p2).rd, pos |-> 0, alone |-> new(p2)]>>
    /\ r = NoReader
    /\ rpos = 0
    /\ origin = 0
    /\ ret = NoRet
    /\ IdleWriter
    /\ IdleCallers

\* the call c made on reader k of the shared buffer, and on its copy run
\* alone; the words the call leaves in its slice are the words of the buffer
SharedCall(k, c) ==
    LET got == ReaderCall(View(k), c)
        solo == ReaderCall(readers[k].alone, c)
    IN /\ Idle
       /\ readers' = [readers EXCEPT ![k] = [rd |-> got.rd, pos |-> got.pos,
                                              alone |-> [rd |-> solo.rd, pos |-> solo.pos]]]
       /\ arg' = [arg EXCEPT !.data = got.rd.data]
       /\ ret' = [op |-> c.op, a |-> <<k>>, out |-> got.out, alone |-> solo.out]
       /\ UNCHANGED <<size, w, wpos, r, rpos, stream, blocks, mu, pc, call, todo, acc, origin>>

\* SetBits(n) on reader k: no bits, five bits, or all the buffer holds
SharedSetBits(k) ==
    \E n \in {0, 5, Len(arg.data) * readers[k].rd.s} :
        SharedCall(k, ReaderCallOf("SetBits", 0, 0, n))

\* the block reads of reader k
SharedBlockRead(k) ==
    \E op \in {<<"Read8R", 8>>, <<"Read16R", 16>>, <<"Read32R", 32>>, <<"Read64R", 64>>},
       bits \in {3, 8}, n \in {0, 1} :
        SharedCall(k, ReaderCallOf(op[1], op[2], bits, n))

\* ReadBit, and Seek to a position before, inside or beyond the stream
SharedCursorMove(k) ==
    \/ SharedCall(k, ReaderCallOf("ReadBit", 0, 0, 0))
    \/ \E pos \in {-1, 0, 2, readers[k].rd.bits + 1} :
           SharedCall(k, ReaderCallOf("Seek", 0, 0, pos))

\* ReadBitAt and the getters Pos, Bits and Data
SharedGet(k) ==
    \/ \E pos \in {-1, 0, 4, readers[k].rd.bits} :
           SharedCall(k, ReaderCallOf("ReadBitAt", 0, 0, pos))
    \/ \E op \in {"Pos", "Bits", "Data"} : SharedCall(k, ReaderCallOf(op, 0, 0, 0))

NextShare ==
    \/ \E k \in ReaderIds :
           \/ SharedSetBits(k)
           \/ SharedBlockRead(k)
           \/ SharedCursorMove(k)
           \/ SharedGet(k)
    \/ Return

SpecShare == InitShare /\ [][NextShare]_vars

\* C22: no call on a BitReader - block reads, ReadBit, ReadBitAt, Seek, Pos,
\* SetBits, Bits, Data - changes the buffer; a call on one reader leaves the
\* cursor and the bit count of the other reader of the buffer; so in every
\* interleaving of calls on the two readers every call returns what it returns
\* when its reader runs alone on a buffer of its own, and leaves its reader
\* with the same bit count and cursor.
C22_ReadersIndependent ==
    /\ [][arg'.data = arg.data]_vars
    /\ [][\A k \in ReaderIds :
             (ret'.op # "none" /\ ret'.a[1] # k) =>
                 /\ readers'[k].pos = readers[k].pos
                 /\ readers'[k].rd.bits = readers[k].rd.bits]_vars
    /\ [](ret.op # "none" => ret.out = ret.alone)
    /\ [](\A k \in ReaderIds :
             /\ View(k).pos = readers[k].alone.pos
             /\ View(k).rd = readers[k].alone.rd)

\* C22 witness: the first reader was limited to 5 bits and read three of them,
\* the second, with other paddings, still has all its bits, stands beyond its
\* end and just read a non-zero block that reaches past the first reader's
\* limit
C22_Witness ==
    /\ readers # <<>>
    /\ readers[1].rd.bits = 5
    /\ readers[1].pos = 3
    /\ readers[2].rd.s # readers[1].rd.s
    /\ readers[2].rd.bits = Len(arg.data) * readers[2].rd.s
    /\ readers[2].pos > readers[2].rd.bits
    /\ ret.op = "Read16R"
    /\ ret.a = <<2>>
    /\ ret.out.val # {}
    /\ ret.out = ret.alone

=============================================================================
